---- MODULE Spec2Model ----
(***************************************************************************)
(* AI tracing: the tracing registry (packages/core/src/ai-tracing/         *)
(* registry.ts), the no-op span (types.ts) and the Langfuse exporter       *)
(* (observability/langfuse/src/ai-tracing.ts), as state machines.          *)
(***************************************************************************)
EXTENDS Integers, Sequences, FiniteSets, TLC

VARIABLES
  instances,   \* AITracingRegistry.instances: a Map, kept in insertion order
  result,      \* the last call on the registry and what it returned or threw
  selector,    \* whether a TracingSelector is configured
  defaultInstance, \* the default instance, set at registration time
  selected,    \* the outcome of the last root-span instance resolution
  realtime,    \* LangfuseExporter.realtime
  traceMap,    \* LangfuseExporter.traceMap: trace id -> {trace, spans}
  effects,     \* backend calls and map writes of the last exporter call, in order
  event,       \* the last event handed to exportEvent (type and span id)
  spans,       \* the spans created so far; a span's id is its index
  endHandled,  \* ids of the spans whose span_ended the exporter has handled
  noopSpans,   \* the NoOpAISpan objects; an object's reference is its index
  lastCall,    \* the last method called on a NoOpAISpan, with its options
  shutdownPc,  \* where AITracingRegistry.shutdown stands: idle or awaiting
  shutdownPromises, \* the promises of the instance shutdowns it started
  draining,    \* LangfuseExporter.shutdown awaits client.shutdownAsync
  delivered,   \* the calls made on the exporter since its construction
  backend,     \* the calls the backend has seen since then, in order
  attributes,  \* the attribute map handed to sanitizeMetadata
  sanitized,   \* what sanitizeMetadata returned for it
  resanitized, \* what sanitizeMetadata returned for that in turn
  sanitizePc,  \* how far the two calls have come
  snapshot,    \* the Map the last getAll() call returned to its caller
  thrown,      \* the backend call that threw in the last exportEvent call
  pendingCalls \* the exportEvent calls that have not completed yet

registryVars == <<instances, result>>

selectorVars == <<selector, defaultInstance, selected>>

exporterVars == <<realtime, traceMap, effects, event, spans, endHandled>>

noopVars == <<noopSpans, lastCall>>

shutdownVars == <<shutdownPc, shutdownPromises>>

\* The variables of the parts added after the registry, the selector, the
\* exporter and the no-op span.
pipelineVars == <<draining, delivered, backend>>

sanitizeVars == <<attributes, sanitized, resanitized, sanitizePc>>

enumerateVars == <<snapshot>>

failureVars == <<thrown>>

pendingVars == <<pendingCalls>>

restVars == <<shutdownVars, pipelineVars, sanitizeVars, enumerateVars, failureVars, pendingVars>>

vars == <<instances, result, selector, defaultInstance, selected,
          realtime, traceMap, effects, event, spans, endHandled,
          noopSpans, lastCall, shutdownPc, shutdownPromises,
          draining, delivered, backend,
          attributes, sanitized, resanitized, sanitizePc, snapshot,
          thrown, pendingCalls>>

\* ------------------------------------------------------------------------
\* Values
\* ------------------------------------------------------------------------

\* JavaScript's undefined.
Undefined == "undefined"

\* Instance names used by callers; "missing" is never registered.
Names == {"a", "b", "c"}

\* MastraAITracing objects, by identity.
InstanceRefs == {"i1", "i2"}

\* ------------------------------------------------------------------------
\* AITracingRegistry (registry.ts)
\* ------------------------------------------------------------------------

\* Map.prototype.has on the instances map.
MapHas(m, name) == \E i \in DOMAIN m : m[i].name = name

\* Map.prototype.get on the instances map.
MapGet(m, name) ==
  IF MapHas(m, name)
    THEN (CHOOSE e \in {m[i] : i \in DOMAIN m} : e.name = name).instance
    ELSE Undefined

\* A map that puts a new key first in its order of iteration.
MapSetPrepends(m, name, inst) ==
  IF MapHas(m, name)
    THEN [i \in DOMAIN m |->
            IF m[i].name = name THEN [name |-> name, instance |-> inst] ELSE m[i]]
    ELSE <<[name |-> name, instance |-> inst]>> \o m

\* Map.prototype.set: replaces the value of a present key in place, appends
\* a new key at the end of the insertion order.
MapSet(m, name, inst) ==
  IF MapHas(m, name)
    THEN [i \in DOMAIN m |->
            IF m[i].name = name THEN [name |-> name, instance |-> inst] ELSE m[i]]
    ELSE Append(m, [name |-> name, instance |-> inst])

\* Map.prototype.delete: the map without the key.
MapDelete(m, name) == SelectSeq(m, LAMBDA e : e.name # name)

\* The set of keys of the map.
MapKeys(m) == {m[i].name : i \in DOMAIN m}

\* get(name)
RegistryGet(name) == MapGet(instances, name)

\* register without the duplicate check: a later registration overwrites.
RegisterOverwrites(name, inst) ==
  /\ instances' = MapSet(instances, name, inst)
  /\ result' = [op |-> "register", name |-> name, instance |-> inst,
                outcome |-> "ok"]

\* register(name, instance)
Register(name, inst) ==
  IF MapHas(instances, name)
    THEN /\ result' = [op |-> "register", name |-> name, instance |-> inst,
                       outcome |-> "throw"]
         /\ UNCHANGED instances
    ELSE /\ instances' = MapSet(instances, name, inst)
         /\ result' = [op |-> "register", name |-> name, instance |-> inst,
                       outcome |-> "ok"]

\* get(name), as a call
Get(name) ==
  /\ result' = [op |-> "get", name |-> name, instance |-> RegistryGet(name),
                outcome |-> "ok"]
  /\ UNCHANGED instances

\* unregister with instances.clear() in place of instances.delete(name).
UnregisterClears(name) ==
  /\ result' = [op |-> "unregister", name |-> name, instance |-> Undefined,
                outcome |-> IF MapHas(instances, name) THEN "true" ELSE "false"]
  /\ instances' = IF MapHas(instances, name) THEN <<>> ELSE instances

\* unregister(name)
Unregister(name) ==
  /\ result' = [op |-> "unregister", name |-> name, instance |-> Undefined,
                outcome |-> IF MapHas(instances, name) THEN "true" ELSE "false"]
  /\ instances' = MapDelete(instances, name)

\* clear()
Clear ==
  /\ result' = [op |-> "clear", name |-> Undefined, instance |-> Undefined,
                outcome |-> "ok"]
  /\ instances' = <<>>

\* getAll() returning this.instances itself: caller and registry share one
\* Map.
GetAllReturnsInstances == [object |-> "this.instances", entries |-> instances]

\* getAll(): new Map(this.instances), a Map of its own with the entries of
\* the registry in their order.
GetAll == [object |-> "new Map", entries |-> instances]

\* A step of the registry seen from the holder of a Map that getAll()
\* returned: the Map changes with the registry only if it is the registry's.
SnapshotRetained ==
  snapshot' = IF snapshot.object = "this.instances"
                THEN [snapshot EXCEPT !.entries = instances']
                ELSE snapshot

\* A caller calls getAll() and keeps what it returns.
GetAllCall ==
  /\ snapshot' = GetAll
  /\ result' = [op |-> "getAll", name |-> Undefined, instance |-> Undefined,
                outcome |-> "ok"]
  /\ UNCHANGED instances

\* The caller changes the Map it holds: set(name, instance) or delete(name).
\* The registry changes with it only if the Map is the registry's.
SnapshotChange(entries) ==
  /\ snapshot.object # "none"
  /\ snapshot' = [snapshot EXCEPT !.entries = entries]
  /\ instances' = IF snapshot.object = "this.instances"
                    THEN entries
                    ELSE instances
  /\ result' = [op |-> "snapshot.change", name |-> Undefined,
                instance |-> Undefined, outcome |-> "ok"]

\* ------------------------------------------------------------------------
\* AITracingRegistry.shutdown (registry.ts)
\* ------------------------------------------------------------------------

\* Every promise of the sequence has settled.
AllSettled(promises) ==
  \A i \in DOMAIN promises : promises[i].state # "pending"

\* shutdown(), up to its await: instance.shutdown() is called on every value
\* of the map, in the map's order, and the promises are collected. One
\* shutdown of the registry runs at a time.
RegistryShutdownStart ==
  /\ shutdownPc = "idle"
  /\ shutdownPromises' =
       [i \in DOMAIN instances |->
          [instance |-> instances[i].instance, state |-> "pending"]]
  /\ shutdownPc' = "awaiting"
  /\ result' = [op |-> "shutdown", name |-> Undefined, instance |-> Undefined,
                outcome |-> "pending"]
  /\ UNCHANGED instances

\* The shutdown of one instance settles: its promise fulfils or rejects.
InstanceShutdownSettles(i, state) ==
  /\ shutdownPc = "awaiting"
  /\ i \in DOMAIN shutdownPromises
  /\ shutdownPromises[i].state = "pending"
  /\ shutdownPromises' = [shutdownPromises EXCEPT ![i].state = state]
  /\ UNCHANGED <<instances, result, shutdownPc>>

\* shutdown() with Promise.all in place of Promise.allSettled: a rejected
\* instance shutdown rejects the call before the map is cleared.
RegistryShutdownFinishAll ==
  /\ shutdownPc = "awaiting"
  /\ AllSettled(shutdownPromises)
  /\ shutdownPc' = "idle"
  /\ IF \E i \in DOMAIN shutdownPromises : shutdownPromises[i].state = "rejected"
       THEN /\ result' = [op |-> "shutdown", name |-> Undefined,
                          instance |-> Undefined, outcome |-> "throw"]
            /\ UNCHANGED instances
       ELSE /\ result' = [op |-> "shutdown", name |-> Undefined,
                          instance |-> Undefined, outcome |-> "ok"]
            /\ instances' = <<>>
  /\ UNCHANGED shutdownPromises

\* shutdown(), after its await: Promise.allSettled has resolved, whatever
\* the promises settled to; its value is dropped, the map is cleared and the
\* call resolves.
RegistryShutdownFinish ==
  /\ shutdownPc = "awaiting"
  /\ AllSettled(shutdownPromises)
  /\ instances' = <<>>
  /\ shutdownPc' = "idle"
  /\ result' = [op |-> "shutdown", name |-> Undefined, instance |-> Undefined,
                outcome |-> "ok"]
  /\ UNCHANGED shutdownPromises

\* ------------------------------------------------------------------------
\* Spans and events, as the exporter sees them
\* ------------------------------------------------------------------------

\* The most spans created in one run.
MaxSpans == 3

\* AISpanType (types.ts)
AISpanType ==
  {"agent_run", "generic", "llm_generation", "mcp_tool_call", "tool_call",
   "workflow_run", "workflow_step"}

\* AISpanType.LLM_GENERATION
LLM_GENERATION == "llm_generation"

\* AITracingEventType
SPAN_STARTED == "span_started"
SPAN_UPDATED == "span_updated"
SPAN_ENDED == "span_ended"

\* A span without a parent has parent NoParent; span ids start at 1.
NoParent == 0

\* Values of span.output and of span.errorInfo.message in the events.
Outputs == {Undefined, "done"}
ErrorMessages == {Undefined, "tool failed"}

\* span.metadata, as far as the exporter passes it on: the model and the
\* usage of an LLM generation.
Metadata(model, usage) == [model |-> model, usage |-> usage]

\* The metadata of a span without model and usage.
NoMetadata == Metadata(Undefined, Undefined)

\* The span snapshot an event carries: spans[id] with its current payload.
\* span.trace is the id of the root span (span.trace.id).
Snapshot(id, output, errorInfo) ==
  [id |-> id,
   type |-> spans[id].type,
   parent |-> spans[id].parent,
   trace |-> spans[id].trace,
   isRootSpan |-> spans[id].parent = NoParent,
   metadata |-> spans[id].metadata,
   output |-> output,
   errorInfo |-> errorInfo]

\* ------------------------------------------------------------------------
\* LangfuseExporter (observability/langfuse/src/ai-tracing.ts)
\* ------------------------------------------------------------------------

\* A reference to a backend object: its kind and its id.
Ref(obj) == <<obj.kind, obj.id>>

\* One side effect of a handler: a backend call or a write to the maps.
Effect(call, target, id, output, level, message) ==
  [call |-> call, target |-> target, id |-> id, output |-> output,
   level |-> level, statusMessage |-> message,
   model |-> Undefined, usage |-> Undefined]

\* The call that creates or updates a generation carries metadata.usage, the
\* creation metadata.model as well.
WithUsage(effect, span) ==
  IF effect.call = "generation"
    THEN [effect EXCEPT !.model = span.metadata.model,
                        !.usage = span.metadata.usage]
    ELSE IF effect.call = "update" /\ span.type = LLM_GENERATION
           THEN [effect EXCEPT !.usage = span.metadata.usage]
           ELSE effect

\* The exporter's own state while one exportEvent call runs.
State(tm, eff) == [traceMap |-> tm, effects |-> eff]

\* An empty Map.
EmptyMap == <<>>

\* m with key k set to v (a Map keyed by id).
Put(m, k, v) == [x \in (DOMAIN m) \cup {k} |-> IF x = k THEN v ELSE m[x]]

\* m without key k.
Remove(m, k) == [x \in (DOMAIN m) \ {k} |-> m[x]]

\* constructor: config.realtime ?? false
Constructor(config) == IF config = Undefined THEN FALSE ELSE config = "true"

\* The values an attribute may have.
AttributeValues ==
  {"'x'", "1", "NaN", "{}", "new Date(0)", "() => 0", "undefined",
   "Symbol()", "1n", "circular object"}

\* JSON.stringify(value): it throws on a BigInt and on a circular structure,
\* returns undefined for a function, undefined or a symbol, and a text for
\* the rest.
JsonStringify(value) ==
  CASE value \in {"1n", "circular object"} ->
         [threw |-> TRUE, text |-> Undefined]
    [] value \in {"() => 0", "undefined", "Symbol()"} ->
         [threw |-> FALSE, text |-> Undefined]
    [] value = "'x'" -> [threw |-> FALSE, text |-> "\"x\""]
    [] value = "1" -> [threw |-> FALSE, text |-> "1"]
    [] value = "NaN" -> [threw |-> FALSE, text |-> "null"]
    [] value = "{}" -> [threw |-> FALSE, text |-> "{}"]
    [] value = "new Date(0)" ->
         [threw |-> FALSE, text |-> "\"1970-01-01T00:00:00.000Z\""]

\* JSON.parse(text), for the texts JSON.stringify gives; undefined is no
\* JSON text.
JsonParse(text) ==
  CASE text = Undefined -> [threw |-> TRUE, value |-> Undefined]
    [] text = "\"x\"" -> [threw |-> FALSE, value |-> "'x'"]
    [] text = "1" -> [threw |-> FALSE, value |-> "1"]
    [] text = "null" -> [threw |-> FALSE, value |-> "null"]
    [] text = "{}" -> [threw |-> FALSE, value |-> "{}"]
    [] text = "\"1970-01-01T00:00:00.000Z\"" ->
         [threw |-> FALSE, value |-> "'1970-01-01T00:00:00.000Z'"]

\* isSerializable(value): JSON.stringify(value) does not throw
IsSerializable(value) == ~JsonStringify(value).threw

\* An attribute map, or none: span.metadata.attributes is optional.
Attributes(entries) == [defined |-> TRUE, entries |-> entries]
NoAttributes == [defined |-> FALSE, entries |-> EmptyMap]

\* sanitizeMetadata(metadata)
SanitizeMetadata(metadata) ==
  IF ~metadata.defined
    THEN EmptyMap
    ELSE LET kept == {key \in DOMAIN metadata.entries :
                        IsSerializable(metadata.entries[key])}
         IN [key \in kept |-> metadata.entries[key]]

\* buildEndData without its `if (span.errorInfo)` branch.
BuildEndDataAlwaysDefault(span) ==
  [output |-> span.output, level |-> "DEFAULT", statusMessage |-> Undefined]

\* buildEndData: the level and the status message of the end call
BuildEndData(span) ==
  IF span.errorInfo # Undefined
    THEN [output |-> span.output, level |-> "ERROR",
          statusMessage |-> span.errorInfo]
    ELSE [output |-> span.output, level |-> "DEFAULT",
          statusMessage |-> Undefined]

\* The parent lookup skipped: every object is created under the trace.
ParentAlwaysTrace(traceData, span) == traceData.trace

\* The object a new backend span or generation is created under.
ParentOf(traceData, span) ==
  IF span.parent # NoParent /\ span.parent \in DOMAIN traceData.spans
    THEN traceData.spans[span.parent]
    ELSE traceData.trace

\* The creation without its `if (!traceData) return`: a span whose trace has
\* no entry gets a new trace object and entry, and its object under it.
CreateUnderRecreatesTrace(st, span, call) ==
  LET trace == [kind |-> "trace", id |-> span.trace]
      object == [kind |-> call, id |-> span.id, under |-> Ref(trace)]
      traceData ==
        IF span.trace \in DOMAIN st.traceMap
          THEN st.traceMap[span.trace]
          ELSE [trace |-> trace, spans |-> EmptyMap]
  IN State(
       Put(st.traceMap, span.trace,
           [traceData EXCEPT !.spans = Put(traceData.spans, span.id, object)]),
       st.effects \o
         << Effect("client.trace", <<"client", 0>>, span.trace,
                   Undefined, Undefined, Undefined),
            Effect(call, Ref(trace), span.id, span.output, Undefined, Undefined) >>)

\* parent.span(...) or parent.generation(...), then traceData.spans.set
CreateUnder(st, span, call) ==
  IF span.trace \notin DOMAIN st.traceMap
    THEN st
    ELSE LET traceData == st.traceMap[span.trace]
             parent == ParentOf(traceData, span)
             object == [kind |-> call, id |-> span.id, under |-> Ref(parent)]
         IN State(
              Put(st.traceMap, span.trace,
                  [traceData EXCEPT !.spans = Put(traceData.spans, span.id, object)]),
              st.effects \o
                << WithUsage(Effect(call, Ref(parent), span.id, span.output,
                                    Undefined, Undefined), span),
                   Effect("spans.set", <<"trace", span.trace>>, span.id,
                          Undefined, Undefined, Undefined) >>)

\* createLangfuseGeneration with parent.span in place of parent.generation:
\* a plain span, without model and usage.
CreateLangfuseGenerationAsSpan(st, span) == CreateUnder(st, span, "span")

\* createLangfuseGeneration(span)
CreateLangfuseGeneration(st, span) == CreateUnder(st, span, "generation")

\* createLangfuseSpan without traceData.spans.set: the backend span is
\* created and its handle forgotten.
CreateLangfuseSpanForgetsHandle(st, span) ==
  IF span.trace \notin DOMAIN st.traceMap
    THEN st
    ELSE State(st.traceMap,
               Append(st.effects,
                      Effect("span", Ref(ParentOf(st.traceMap[span.trace], span)),
                             span.id, span.output, Undefined, Undefined)))

\* createLangfuseSpan(span)
CreateLangfuseSpan(st, span) == CreateUnder(st, span, "span")

\* handleSpanStarted without its test of span.type: every span becomes a
\* backend span.
HandleSpanStartedAlwaysSpan(st, span) ==
  LET st1 ==
        IF span.isRootSpan
          THEN State(
                 Put(st.traceMap, span.trace,
                     [trace |-> [kind |-> "trace", id |-> span.trace],
                      spans |-> EmptyMap]),
                 st.effects \o
                   << Effect("client.trace", <<"client", 0>>, span.trace,
                             Undefined, Undefined, Undefined),
                      Effect("traceMap.set", <<"client", 0>>, span.trace,
                             Undefined, Undefined, Undefined) >>)
          ELSE st
  IN CreateLangfuseSpan(st1, span)

\* handleSpanStarted(span)
HandleSpanStarted(st, span) ==
  LET st1 ==
        IF span.isRootSpan
          THEN State(
                 Put(st.traceMap, span.trace,
                     [trace |-> [kind |-> "trace", id |-> span.trace],
                      spans |-> EmptyMap]),
                 st.effects \o
                   << Effect("client.trace", <<"client", 0>>, span.trace,
                             Undefined, Undefined, Undefined),
                      Effect("traceMap.set", <<"client", 0>>, span.trace,
                             Undefined, Undefined, Undefined) >>)
          ELSE st
  IN IF span.type = LLM_GENERATION
       THEN CreateLangfuseGeneration(st1, span)
       ELSE CreateLangfuseSpan(st1, span)

\* handleSpanUpdated without its two early returns: the update is sent for
\* the span's id whether a handle is held or not.
HandleSpanUpdatedWithoutHandle(st, span) ==
  State(st.traceMap,
        Append(st.effects,
               Effect("update", <<"span", span.id>>, span.id, span.output,
                      Undefined, Undefined)))

\* handleSpanUpdated(span)
HandleSpanUpdated(st, span) ==
  IF span.trace \notin DOMAIN st.traceMap
    THEN st
    ELSE LET traceData == st.traceMap[span.trace]
         IN IF span.id \notin DOMAIN traceData.spans
              THEN st
              ELSE State(st.traceMap,
                         Append(st.effects,
                                WithUsage(
                                  Effect("update", Ref(traceData.spans[span.id]),
                                         span.id, span.output, Undefined, Undefined),
                                  span)))

\* handleSpanEnded without traceMap.delete: a root's end leaves its trace.
HandleSpanEndedKeepsTrace(st, span) ==
  IF span.trace \notin DOMAIN st.traceMap
       \/ span.id \notin DOMAIN st.traceMap[span.trace].spans
    THEN st
    ELSE LET traceData == st.traceMap[span.trace]
             endData == BuildEndData(span)
             ended ==
               Append(st.effects,
                      Effect("end", Ref(traceData.spans[span.id]), span.id,
                             endData.output, endData.level, endData.statusMessage))
         IN IF span.isRootSpan
              THEN State(st.traceMap,
                         Append(ended,
                                Effect("trace.update", Ref(traceData.trace),
                                       span.trace, span.output, Undefined, Undefined)))
              ELSE State(st.traceMap, ended)

\* handleSpanEnded with the trace updated before the root's object is ended.
HandleSpanEndedUpdatesFirst(st, span) ==
  IF span.trace \notin DOMAIN st.traceMap
       \/ span.id \notin DOMAIN st.traceMap[span.trace].spans
    THEN st
    ELSE LET traceData == st.traceMap[span.trace]
             endData == BuildEndData(span)
             end == Effect("end", Ref(traceData.spans[span.id]), span.id,
                           endData.output, endData.level, endData.statusMessage)
         IN IF span.isRootSpan
              THEN State(
                     Remove(st.traceMap, span.trace),
                     st.effects \o
                       << Effect("trace.update", Ref(traceData.trace),
                                 span.trace, span.output, Undefined, Undefined),
                          end,
                          Effect("traceMap.delete", <<"client", 0>>,
                                 span.trace, Undefined, Undefined, Undefined) >>)
              ELSE State(st.traceMap, Append(st.effects, end))

\* handleSpanEnded with traceMap.clear() in place of traceMap.delete: a
\* root's end drops the entries of every trace.
HandleSpanEndedClearsMap(st, span) ==
  IF span.trace \notin DOMAIN st.traceMap
       \/ span.id \notin DOMAIN st.traceMap[span.trace].spans
    THEN st
    ELSE LET traceData == st.traceMap[span.trace]
             endData == BuildEndData(span)
             ended ==
               Append(st.effects,
                      Effect("end", Ref(traceData.spans[span.id]), span.id,
                             endData.output, endData.level, endData.statusMessage))
         IN IF span.isRootSpan
              THEN State(
                     EmptyMap,
                     ended \o
                       << Effect("trace.update", Ref(traceData.trace),
                                 span.trace, span.output, Undefined, Undefined),
                          Effect("traceMap.delete", <<"client", 0>>,
                                 span.trace, Undefined, Undefined, Undefined) >>)
              ELSE State(st.traceMap, ended)

\* handleSpanEnded with traceData.spans.delete(span.id) after the end call
\* of a span that is not the root.
HandleSpanEndedDropsHandle(st, span) ==
  IF span.trace \notin DOMAIN st.traceMap
       \/ span.id \notin DOMAIN st.traceMap[span.trace].spans
    THEN st
    ELSE LET traceData == st.traceMap[span.trace]
             endData == BuildEndData(span)
             ended ==
               Append(st.effects,
                      Effect("end", Ref(traceData.spans[span.id]), span.id,
                             endData.output, endData.level, endData.statusMessage))
         IN IF span.isRootSpan
              THEN State(
                     Remove(st.traceMap, span.trace),
                     ended \o
                       << Effect("trace.update", Ref(traceData.trace),
                                 span.trace, span.output, Undefined, Undefined),
                          Effect("traceMap.delete", <<"client", 0>>,
                                 span.trace, Undefined, Undefined, Undefined) >>)
              ELSE State(
                     Put(st.traceMap, span.trace,
                         [traceData EXCEPT !.spans = Remove(traceData.spans, span.id)]),
                     ended)

\* handleSpanEnded(span)
HandleSpanEnded(st, span) ==
  IF span.trace \notin DOMAIN st.traceMap
    THEN st
    ELSE LET traceData == st.traceMap[span.trace]
         IN IF span.id \notin DOMAIN traceData.spans
              THEN st
              ELSE LET endData == BuildEndData(span)
                       ended ==
                         Append(st.effects,
                                Effect("end", Ref(traceData.spans[span.id]), span.id,
                                       endData.output, endData.level,
                                       endData.statusMessage))
                   IN IF span.isRootSpan
                        THEN State(
                               Remove(st.traceMap, span.trace),
                               ended \o
                                 << Effect("trace.update", Ref(traceData.trace),
                                           span.trace, span.output, Undefined, Undefined),
                                    Effect("traceMap.delete", <<"client", 0>>,
                                           span.trace, Undefined, Undefined, Undefined) >>)
                        ELSE State(st.traceMap, ended)

\* exportEvent without the flush of realtime mode.
ExportEventWithoutFlush(ev) ==
  LET st0 == State(traceMap, <<>>)
      st1 == CASE ev.type = SPAN_STARTED -> HandleSpanStarted(st0, ev.span)
               [] ev.type = SPAN_UPDATED -> HandleSpanUpdated(st0, ev.span)
               [] ev.type = SPAN_ENDED -> HandleSpanEnded(st0, ev.span)
  IN /\ traceMap' = st1.traceMap
     /\ effects' = st1.effects
     /\ event' = [type |-> ev.type, span |-> ev.span.id]
     /\ endHandled' = IF ev.type = SPAN_ENDED
                        THEN endHandled \cup {ev.span.id}
                        ELSE endHandled
     /\ UNCHANGED realtime

\* exportEvent(event): the handler of the event's type, then the flush of
\* realtime mode.
ExportEvent(ev) ==
  LET st0 == State(traceMap, <<>>)
      st1 == CASE ev.type = SPAN_STARTED -> HandleSpanStarted(st0, ev.span)
               [] ev.type = SPAN_UPDATED -> HandleSpanUpdated(st0, ev.span)
               [] ev.type = SPAN_ENDED -> HandleSpanEnded(st0, ev.span)
      st2 == IF realtime
               THEN State(st1.traceMap,
                          Append(st1.effects,
                                 Effect("client.flushAsync", <<"client", 0>>, 0,
                                        Undefined, Undefined, Undefined)))
               ELSE st1
  IN /\ traceMap' = st2.traceMap
     /\ effects' = st2.effects
     /\ event' = [type |-> ev.type, span |-> ev.span.id]
     /\ endHandled' = IF ev.type = SPAN_ENDED
                        THEN endHandled \cup {ev.span.id}
                        ELSE endHandled
     /\ UNCHANGED realtime

\* shutdown()
Shutdown ==
  /\ traceMap' = EmptyMap
  /\ effects' = << Effect("client.shutdownAsync", <<"client", 0>>, 0,
                          Undefined, Undefined, Undefined),
                   Effect("traceMap.clear", <<"client", 0>>, 0,
                          Undefined, Undefined, Undefined) >>
  /\ event' = [type |-> "shutdown", span |-> 0]
  /\ UNCHANGED <<realtime, spans, endHandled>>

\* shutdown(), up to its await: client.shutdownAsync() is called.
ShutdownDrain ==
  /\ ~draining
  /\ draining' = TRUE
  /\ effects' = << Effect("client.shutdownAsync", <<"client", 0>>, 0,
                          Undefined, Undefined, Undefined) >>
  /\ event' = [type |-> "shutdown_called", span |-> 0]
  /\ UNCHANGED <<realtime, traceMap, spans, endHandled>>

\* shutdown() without traceMap.clear(): the client is drained and the
\* mappings are kept.
ShutdownClearKeepsMap ==
  /\ draining
  /\ draining' = FALSE
  /\ effects' = <<>>
  /\ event' = [type |-> "shutdown", span |-> 0]
  /\ UNCHANGED <<realtime, traceMap, spans, endHandled>>

\* shutdown(), after its await: the client has drained, traceMap.clear()
\* runs and the call completes.
ShutdownClear ==
  /\ draining
  /\ draining' = FALSE
  /\ traceMap' = EmptyMap
  /\ effects' = << Effect("traceMap.clear", <<"client", 0>>, 0,
                          Undefined, Undefined, Undefined) >>
  /\ event' = [type |-> "shutdown", span |-> 0]
  /\ UNCHANGED <<realtime, spans, endHandled>>

\* shutdown() when client.shutdownAsync() rejects: the await throws and the
\* call fails before traceMap.clear().
ShutdownRejects ==
  /\ draining
  /\ draining' = FALSE
  /\ effects' = <<>>
  /\ event' = [type |-> "shutdown_failed", span |-> 0]
  /\ UNCHANGED <<realtime, traceMap, spans, endHandled>>

\* ------------------------------------------------------------------------
\* The tracing instance in front of the exporter: it creates spans and
\* hands their lifecycle events to exportEvent
\* ------------------------------------------------------------------------

\* The span a new root or a createChildSpan call constructs: its parent is
\* the caller, its trace the caller's trace (its own id for a root).
NewSpan(id, parent, type) ==
  [parent |-> parent,
   trace |-> IF parent = NoParent THEN id ELSE spans[parent].trace,
   type |-> type,
   metadata |-> NoMetadata]

\* A span is created with the metadata of its options; it has no output
\* yet. Its span_started event reaches the exporter unless a processor drops
\* it.
StartSpanWith(parent, type, metadata, dropped) ==
  /\ Len(spans) < MaxSpans
  /\ parent \in {NoParent} \cup DOMAIN spans
  /\ LET id == Len(spans) + 1
     IN /\ spans' = Append(spans, [NewSpan(id, parent, type)
                                    EXCEPT !.metadata = metadata])
        /\ IF dropped
             THEN /\ event' = [type |-> "dropped", span |-> id]
                  /\ effects' = <<>>
                  /\ UNCHANGED <<realtime, traceMap, endHandled>>
             ELSE ExportEvent(
                    [type |-> SPAN_STARTED,
                     span |-> [id |-> id, type |-> type, parent |-> parent,
                               trace |-> spans'[id].trace,
                               isRootSpan |-> parent = NoParent,
                               metadata |-> metadata,
                               output |-> Undefined, errorInfo |-> Undefined]])

\* A span is created without model and usage.
StartSpan(parent, type, dropped) ==
  StartSpanWith(parent, type, NoMetadata, dropped)

\* update() on a span: span_updated
UpdateSpan(id, output) ==
  /\ id \in DOMAIN spans
  /\ ExportEvent([type |-> SPAN_UPDATED, span |-> Snapshot(id, output, Undefined)])
  /\ UNCHANGED spans

\* end(), or error() with endSpan, on a span: span_ended. Nothing keeps a
\* caller from ending a span twice, or a root before its children.
EndSpan(id, output, errorInfo) ==
  /\ id \in DOMAIN spans
  /\ ExportEvent([type |-> SPAN_ENDED, span |-> Snapshot(id, output, errorInfo)])
  /\ UNCHANGED spans

\* The span types the exporter runs are drawn from.
ExporterTypes == {"agent_run", LLM_GENERATION}

\* ------------------------------------------------------------------------
\* NoOpAISpan (types.ts)
\* ------------------------------------------------------------------------

\* The most no-op spans created in one run.
MaxNoOpSpans == 3

\* A no-op span holds no reference to a parent.
NoRef == 0

\* The options spans are created with: type, name, input and metadata.
NoOpOptions ==
  {[type |-> "agent_run", name |-> "run", input |-> "question",
    metadata |-> "agentId=chef-1"],
   [type |-> LLM_GENERATION, name |-> "llm", input |-> "question",
    metadata |-> Undefined],
   [type |-> "tool_call", name |-> "tool", input |-> Undefined,
    metadata |-> Undefined]}

\* The constructor with the new span's trace set to its parent, not to the
\* parent's trace.
NoOpAISpanTraceIsParent(self, options, parent, aiTracing) ==
  [id |-> "no-op",
   name |-> options.name,
   type |-> options.type,
   metadata |-> IF options.metadata # Undefined THEN options.metadata ELSE "{}",
   parent |-> parent,
   trace |-> IF parent # NoRef THEN parent ELSE self,
   traceId |-> "no-op-trace",
   startTime |-> "now",
   endTime |-> Undefined,
   aiTracing |-> aiTracing,
   input |-> options.input,
   output |-> Undefined,
   errorInfo |-> Undefined]

\* new NoOpAISpan(options, aiTracing): self is the reference of the new
\* object, parent is options.parent
NoOpAISpan(self, options, parent, aiTracing) ==
  [id |-> "no-op",
   name |-> options.name,
   type |-> options.type,
   metadata |-> IF options.metadata # Undefined THEN options.metadata ELSE "{}",
   parent |-> parent,
   trace |-> IF parent # NoRef THEN noopSpans[parent].trace ELSE self,
   traceId |-> "no-op-trace",
   startTime |-> "now",
   endTime |-> Undefined,
   aiTracing |-> aiTracing,
   input |-> options.input,
   output |-> Undefined,
   errorInfo |-> Undefined]

\* get isRootSpan
IsRootSpan(span) == span.parent = NoRef

\* A tracing instance answers a rejected root-span request with a no-op
\* span.
NoOpRootSpan(options, aiTracing) ==
  /\ Len(noopSpans) < MaxNoOpSpans
  /\ noopSpans' =
       Append(noopSpans, NoOpAISpan(Len(noopSpans) + 1, options, NoRef, aiTracing))
  /\ lastCall' = [op |-> "new", span |-> Len(noopSpans) + 1,
                  output |-> Undefined, endSpan |-> FALSE]
  /\ UNCHANGED exporterVars

\* createChildSpan that hands a span_started event to the exporter, as the
\* span of an accepted trace does.
NoOpCreateChildSpanEmits(s, options) ==
  /\ s \in DOMAIN noopSpans
  /\ Len(noopSpans) < MaxNoOpSpans
  /\ noopSpans' =
       Append(noopSpans,
              NoOpAISpan(Len(noopSpans) + 1, options, s, noopSpans[s].aiTracing))
  /\ lastCall' = [op |-> "createChildSpan", span |-> s,
                  output |-> Undefined, endSpan |-> FALSE]
  /\ ExportEvent([type |-> SPAN_STARTED,
                  span |-> [id |-> 0, type |-> options.type, parent |-> 0,
                            trace |-> 0, isRootSpan |-> FALSE,
                            output |-> Undefined, errorInfo |-> Undefined]])
  /\ UNCHANGED spans

\* createChildSpan(options) on the no-op span s
NoOpCreateChildSpan(s, options) ==
  /\ s \in DOMAIN noopSpans
  /\ Len(noopSpans) < MaxNoOpSpans
  /\ noopSpans' =
       Append(noopSpans,
              NoOpAISpan(Len(noopSpans) + 1, options, s, noopSpans[s].aiTracing))
  /\ lastCall' = [op |-> "createChildSpan", span |-> s,
                  output |-> Undefined, endSpan |-> FALSE]
  /\ UNCHANGED exporterVars

\* end that sets endTime and output, as the span of an accepted trace does.
NoOpEndSetsEndTime(s, output) ==
  /\ s \in DOMAIN noopSpans
  /\ lastCall' = [op |-> "end", span |-> s, output |-> output, endSpan |-> FALSE]
  /\ noopSpans' = [noopSpans EXCEPT ![s].endTime = "now", ![s].output = output]
  /\ UNCHANGED exporterVars

\* end(options) on the no-op span s: an empty body
NoOpEnd(s, output) ==
  /\ s \in DOMAIN noopSpans
  /\ lastCall' = [op |-> "end", span |-> s, output |-> output, endSpan |-> FALSE]
  /\ UNCHANGED <<noopSpans, exporterVars>>

\* error(options) on the no-op span s: an empty body
NoOpError(s, endSpan) ==
  /\ s \in DOMAIN noopSpans
  /\ lastCall' = [op |-> "error", span |-> s, output |-> Undefined,
                  endSpan |-> endSpan]
  /\ UNCHANGED <<noopSpans, exporterVars>>

\* update(options) on the no-op span s: an empty body
NoOpUpdate(s, output) ==
  /\ s \in DOMAIN noopSpans
  /\ lastCall' = [op |-> "update", span |-> s, output |-> output,
                  endSpan |-> FALSE]
  /\ UNCHANGED <<noopSpans, exporterVars>>

\* ------------------------------------------------------------------------
\* Selector and default instance
\* ------------------------------------------------------------------------

\* What a selector returns for a context: a name or nothing.
SelectorResults == Names \cup {"missing", Undefined}

\* No default instance yet.
NoDefault == [name |-> Undefined, instance |-> Undefined]

\* Registration as the configuration does it: register, and the first
\* instance registered becomes the default, once.
RegisterAITracing(name, inst) ==
  /\ Register(name, inst)
  /\ defaultInstance' =
       IF defaultInstance = NoDefault /\ ~MapHas(instances, name)
         THEN [name |-> name, instance |-> inst]
         ELSE defaultInstance
  /\ UNCHANGED <<selector, selected>>

\* A selector is configured, or none.
SetSelector(configured) ==
  /\ selector' = configured
  /\ result' = [op |-> "setSelector", name |-> Undefined, instance |-> Undefined,
                outcome |-> "ok"]
  /\ UNCHANGED <<instances, defaultInstance, selected>>

\* The instance that owns a new root span: the one the selector names when
\* it names a registered one, the default otherwise. ret is what the
\* selector returns for the context of the request.
GetSelectedAITracing(ret) ==
  /\ result' = [op |-> "getSelectedAITracing", name |-> Undefined,
                instance |-> Undefined, outcome |-> "ok"]
  /\ selected' =
       IF selector /\ ret # Undefined /\ MapHas(instances, ret)
         THEN [outcome |-> "ok", name |-> ret, instance |-> MapGet(instances, ret),
               selector |-> selector, returned |-> ret]
         ELSE [outcome |-> "ok", name |-> defaultInstance.name,
               instance |-> defaultInstance.instance,
               selector |-> selector, returned |-> ret]
  /\ UNCHANGED <<instances, selector, defaultInstance>>

\* ------------------------------------------------------------------------
\* C7
\* ------------------------------------------------------------------------

\* C7: every span made from a no-op root through createChildSpan, at any
\* depth, is a no-op span, and creating, updating, erroring and ending such
\* spans hands no event to the exporter and leaves its maps and its backend
\* untouched.
C7_RejectedTraceIsSilent ==
  [][/\ \A i \in DOMAIN noopSpans' : noopSpans'[i].id = "no-op"
     /\ lastCall'.op \in {"new", "createChildSpan", "end", "error", "update"} =>
          /\ traceMap' = traceMap
          /\ effects' = <<>>
          /\ event'.type = "none"
          /\ endHandled' = endHandled]_vars

\* A no-op root, its child and its grandchild exist and the grandchild has
\* just been ended.
C7_Witness ==
  /\ Len(noopSpans) = 3
  /\ noopSpans[2].parent = 1
  /\ noopSpans[3].parent = 2
  /\ lastCall.op = "end"
  /\ lastCall.span = 3
  /\ traceMap = EmptyMap

\* ------------------------------------------------------------------------
\* C8
\* ------------------------------------------------------------------------

\* C8: a no-op span has id "no-op", and no call of end, error or update, nor
\* any other step, changes a field of an existing no-op span: endTime,
\* output and errorInfo stay unset, input and metadata stay as constructed.
C8_NoOpSpanInert ==
  [][/\ \A i \in DOMAIN noopSpans :
          /\ i \in DOMAIN noopSpans'
          /\ noopSpans'[i] = noopSpans[i]
     /\ \A i \in DOMAIN noopSpans' :
          /\ noopSpans'[i].id = "no-op"
          /\ noopSpans'[i].endTime = Undefined
          /\ noopSpans'[i].output = Undefined
          /\ noopSpans'[i].errorInfo = Undefined]_vars

\* error with endSpan has just been called on a no-op span that was made
\* with an input and metadata, and it still has no endTime.
C8_Witness ==
  /\ lastCall.op = "error"
  /\ lastCall.endSpan
  /\ noopSpans[lastCall.span].input = "question"
  /\ noopSpans[lastCall.span].metadata = "agentId=chef-1"
  /\ noopSpans[lastCall.span].endTime = Undefined

\* ------------------------------------------------------------------------
\* C9
\* ------------------------------------------------------------------------

\* The parentless span reached from span i by following parent.
RECURSIVE RootOf(_)
RootOf(i) == IF noopSpans[i].parent = NoRef THEN i ELSE RootOf(noopSpans[i].parent)

\* C9: in every tree of spans built by createChildSpan, the trace of every
\* span is the root of its tree, at any depth; a span is a root span exactly
\* when it has no parent, which is exactly when its trace is itself; so each
\* trace has exactly one span without a parent.
C9_TraceLinkage ==
  /\ \A i \in DOMAIN noopSpans :
       /\ noopSpans[i].trace = RootOf(i)
       /\ IsRootSpan(noopSpans[i]) <=> noopSpans[i].trace = i
       /\ IsRootSpan(noopSpans[i]) <=> noopSpans[i].parent = NoRef
  /\ \A r \in {noopSpans[i].trace : i \in DOMAIN noopSpans} :
       Cardinality({i \in DOMAIN noopSpans :
                      noopSpans[i].trace = r /\ IsRootSpan(noopSpans[i])}) = 1

\* A span two levels below its root.
C9_Witness ==
  \E r, c, g \in DOMAIN noopSpans :
    /\ noopSpans[r].parent = NoRef
    /\ noopSpans[c].parent = r
    /\ noopSpans[g].parent = c
    /\ noopSpans[g].trace = r
    /\ g # c

\* ------------------------------------------------------------------------
\* C10
\* ------------------------------------------------------------------------

Init(configs, inputs) ==
  /\ instances = <<>>
  /\ result = [op |-> "new", name |-> Undefined, instance |-> Undefined,
               outcome |-> "ok"]
  /\ selector = FALSE
  /\ defaultInstance = NoDefault
  /\ selected = [outcome |-> "none", name |-> Undefined, instance |-> Undefined,
                 selector |-> FALSE, returned |-> Undefined]
  /\ realtime \in {Constructor(config) : config \in configs}
  /\ traceMap = EmptyMap
  /\ effects = <<>>
  /\ event = [type |-> "none", span |-> 0]
  /\ spans = <<>>
  /\ endHandled = {}
  /\ noopSpans = <<>>
  /\ lastCall = [op |-> "none", span |-> NoRef, output |-> Undefined,
                 endSpan |-> FALSE]
  /\ shutdownPc = "idle"
  /\ shutdownPromises = <<>>
  /\ draining = FALSE
  /\ delivered = <<>>
  /\ backend = <<>>
  /\ attributes \in inputs
  /\ sanitized = EmptyMap
  /\ resanitized = EmptyMap
  /\ sanitizePc = "called"
  /\ snapshot = [object |-> "none", entries |-> <<>>]
  /\ thrown = [call |-> "none", id |-> 0]
  /\ pendingCalls = <<>>

\* The registry alone: register, get, unregister and clear in any order.
RegistryNext ==
  \/ \E n \in Names, i \in InstanceRefs :
       Register(n, i) /\ UNCHANGED <<selectorVars, exporterVars, noopVars, restVars>>
  \/ \E n \in Names :
       Get(n) /\ UNCHANGED <<selectorVars, exporterVars, noopVars, restVars>>
  \/ \E n \in Names :
       Unregister(n) /\ UNCHANGED <<selectorVars, exporterVars, noopVars, restVars>>
  \/ Clear /\ UNCHANGED <<selectorVars, exporterVars, noopVars, restVars>>

SpecRegistry ==
  Init({Undefined}, {NoAttributes}) /\ [][RegistryNext]_vars

\* Registration of instances and resolution of the owner of a root span.
SelectorNext ==
  \/ \E n \in Names, i \in InstanceRefs :
       RegisterAITracing(n, i) /\ UNCHANGED <<exporterVars, noopVars, restVars>>
  \/ \E c \in BOOLEAN :
       SetSelector(c) /\ UNCHANGED <<exporterVars, noopVars, restVars>>
  \/ \E r \in SelectorResults :
       GetSelectedAITracing(r) /\ UNCHANGED <<exporterVars, noopVars, restVars>>

SpecSelector ==
  Init({Undefined}, {NoAttributes}) /\ [][SelectorNext]_vars

\* One exporter under the events of the spans of a tracing instance.
ExporterNext ==
  \/ \E p \in 0..MaxSpans, t \in ExporterTypes, d \in BOOLEAN :
       StartSpan(p, t, d) /\ UNCHANGED <<registryVars, selectorVars, noopVars, restVars>>
  \/ \E s \in 1..MaxSpans, o \in Outputs :
       UpdateSpan(s, o) /\ UNCHANGED <<registryVars, selectorVars, noopVars, restVars>>
  \/ \E s \in 1..MaxSpans, o \in Outputs, e \in ErrorMessages :
       EndSpan(s, o, e) /\ UNCHANGED <<registryVars, selectorVars, noopVars, restVars>>
  \/ Shutdown /\ UNCHANGED <<registryVars, selectorVars, noopVars, restVars>>

SpecExporter ==
  Init({Undefined, "false"}, {NoAttributes}) /\ [][ExporterNext]_vars

\* The spans of rejected traces, next to an exporter.
NoOpNext ==
  \/ \E o \in NoOpOptions, i \in InstanceRefs :
       NoOpRootSpan(o, i) /\ UNCHANGED <<registryVars, selectorVars, restVars>>
  \/ \E s \in 1..MaxNoOpSpans, o \in NoOpOptions :
       NoOpCreateChildSpan(s, o) /\ UNCHANGED <<registryVars, selectorVars, restVars>>
  \/ \E s \in 1..MaxNoOpSpans, o \in Outputs :
       NoOpEnd(s, o) /\ UNCHANGED <<registryVars, selectorVars, restVars>>
  \/ \E s \in 1..MaxNoOpSpans, e \in BOOLEAN :
       NoOpError(s, e) /\ UNCHANGED <<registryVars, selectorVars, restVars>>
  \/ \E s \in 1..MaxNoOpSpans, o \in Outputs :
       NoOpUpdate(s, o) /\ UNCHANGED <<registryVars, selectorVars, restVars>>

SpecNoOp ==
  Init({Undefined, "true"}, {NoAttributes}) /\ [][NoOpNext]_vars


\* The registry with its shutdown: registrations go on while shutdown awaits
\* the instances.
ShutdownAllNext ==
  \/ \E n \in Names, i \in InstanceRefs :
       Register(n, i) /\ UNCHANGED <<selectorVars, exporterVars, noopVars, shutdownVars, pipelineVars, sanitizeVars, enumerateVars, failureVars, pendingVars>>
  \/ \E n \in Names :
       Unregister(n) /\ UNCHANGED <<selectorVars, exporterVars, noopVars, shutdownVars, pipelineVars, sanitizeVars, enumerateVars, failureVars, pendingVars>>
  \/ RegistryShutdownStart /\ UNCHANGED <<selectorVars, exporterVars, noopVars, pipelineVars, sanitizeVars, enumerateVars, failureVars, pendingVars>>
  \/ \E i \in 1..Cardinality(Names), st \in {"fulfilled", "rejected"} :
       InstanceShutdownSettles(i, st) /\ UNCHANGED <<selectorVars, exporterVars, noopVars, pipelineVars, sanitizeVars, enumerateVars, failureVars, pendingVars>>
  \/ RegistryShutdownFinish /\ UNCHANGED <<selectorVars, exporterVars, noopVars, pipelineVars, sanitizeVars, enumerateVars, failureVars, pendingVars>>

SpecShutdownAll ==
  Init({Undefined}, {NoAttributes}) /\ [][ShutdownAllNext]_vars

\* ------------------------------------------------------------------------
\* C11
\* ------------------------------------------------------------------------

\* The instances whose shutdown the promises stand for, in order.
ShutdownTargets(promises) == [i \in DOMAIN promises |-> promises[i].instance]

\* C11: shutdown of the registry calls shutdown on every instance registered
\* when it is called; when it completes, which it does whether the instance
\* shutdowns fulfilled or rejected, the registry is empty.
C11_ShutdownAll ==
  [][/\ (shutdownPc = "idle" /\ shutdownPc' = "awaiting") =>
          /\ ShutdownTargets(shutdownPromises') =
               [i \in DOMAIN instances |-> instances[i].instance]
          /\ instances' = instances
     /\ (shutdownPc = "awaiting" /\ shutdownPc' = "awaiting") =>
          ShutdownTargets(shutdownPromises') = ShutdownTargets(shutdownPromises)
     /\ (shutdownPc = "awaiting" /\ shutdownPc' = "idle") =>
          /\ AllSettled(shutdownPromises)
          /\ shutdownPromises' = shutdownPromises
          /\ instances' = <<>>
          /\ result'.op = "shutdown"
          /\ result'.outcome = "ok"]_vars

\* A shutdown of two instances has completed: the first instance's shutdown
\* rejected, the second one's fulfilled, and the registry is empty.
C11_Witness ==
  /\ shutdownPc = "idle"
  /\ result.op = "shutdown"
  /\ Len(shutdownPromises) = 2
  /\ shutdownPromises[1].state = "rejected"
  /\ shutdownPromises[2].state = "fulfilled"
  /\ instances = <<>>

\* ------------------------------------------------------------------------
\* C12
\* ------------------------------------------------------------------------

\* C12: a completed shutdown of the registry reports the instance shutdowns
\* that failed: it fails exactly when one of them rejected.
C12_ShutdownReportsFailures ==
  (shutdownPc = "idle" /\ result.op = "shutdown") =>
    (result.outcome = "throw" <=>
       \E i \in DOMAIN shutdownPromises : shutdownPromises[i].state = "rejected")

\* ------------------------------------------------------------------------
\* The exporter's mappings and backend calls, as the claims read them
\* ------------------------------------------------------------------------

\* The root spans created so far.
Roots == {s \in DOMAIN spans : spans[s].parent = NoParent}

\* The ids with a span handle in some trace entry of the map tm.
HandleIds(tm) == UNION {DOMAIN tm[t].spans : t \in DOMAIN tm}

\* The span s has a handle, in the entry of its own trace.
HasHandle(tm, s, t) == t \in DOMAIN tm /\ s \in DOMAIN tm[t].spans

\* The effects of a call without the flush of realtime mode.
Handled(eff) == SelectSeq(eff, LAMBDA e : e.call # "client.flushAsync")

\* The calls of the effects eff, in order.
Calls(eff) == [i \in DOMAIN eff |-> eff[i].call]

\* The calls that reach the backend.
BackendCalls ==
  {"client.trace", "span", "generation", "update", "end", "trace.update"}

\* ------------------------------------------------------------------------
\* The exporter with the history of its calls
\* ------------------------------------------------------------------------

\* The most calls made on the exporter in one run.
MaxEvents == 4

\* The metadata a span is created with: an LLM generation may name its model
\* and usage.
Metadatas(type) ==
  IF type = LLM_GENERATION
    THEN {NoMetadata, Metadata("gpt-4", "tokens")}
    ELSE {NoMetadata}

\* The backend calls among the effects eff.
BackendOnly(eff) == SelectSeq(eff, LAMBDA e : e.call \in BackendCalls)

\* The call is recorded with what it made the backend see.
Recorded(ev) ==
  /\ Len(delivered) < MaxEvents
  /\ delivered' = Append(delivered, ev)
  /\ backend' = backend \o BackendOnly(effects')

\* A span is created and its span_started exported.
PipelineStart(parent, type, metadata) ==
  /\ StartSpanWith(parent, type, metadata, FALSE)
  /\ Recorded([type |-> SPAN_STARTED,
               span |-> [id |-> Len(spans'), type |-> type, parent |-> parent,
                         trace |-> spans'[Len(spans')].trace,
                         isRootSpan |-> parent = NoParent,
                         metadata |-> metadata,
                         output |-> Undefined, errorInfo |-> Undefined]])
  /\ UNCHANGED draining

\* A span is ended and its span_ended exported.
PipelineEnd(id, output, errorInfo) ==
  /\ EndSpan(id, output, errorInfo)
  /\ Recorded([type |-> SPAN_ENDED, span |-> Snapshot(id, output, errorInfo)])
  /\ UNCHANGED draining

\* shutdown() is called on the exporter.
PipelineShutdown ==
  /\ ShutdownDrain
  /\ Recorded([type |-> "shutdown", span |-> [id |-> 0]])

\* The shutdown completes.
PipelineShutdownCompletes ==
  /\ ShutdownClear
  /\ UNCHANGED <<delivered, backend>>

\* The shutdown fails.
PipelineShutdownFails ==
  /\ ShutdownRejects
  /\ UNCHANGED <<delivered, backend>>

PipelineNext ==
  \/ \E p \in 0..MaxSpans, t \in ExporterTypes :
       \E m \in Metadatas(t) :
         PipelineStart(p, t, m)
           /\ UNCHANGED <<registryVars, selectorVars, noopVars, shutdownVars, sanitizeVars, enumerateVars, failureVars, pendingVars>>
  \/ \E s \in 1..MaxSpans, o \in Outputs, e \in ErrorMessages :
       PipelineEnd(s, o, e)
         /\ UNCHANGED <<registryVars, selectorVars, noopVars, shutdownVars, sanitizeVars, enumerateVars, failureVars, pendingVars>>
  \/ PipelineShutdown
       /\ UNCHANGED <<registryVars, selectorVars, noopVars, shutdownVars, sanitizeVars, enumerateVars, failureVars, pendingVars>>
  \/ PipelineShutdownCompletes
       /\ UNCHANGED <<registryVars, selectorVars, noopVars, shutdownVars, sanitizeVars, enumerateVars, failureVars, pendingVars>>
  \/ PipelineShutdownFails
       /\ UNCHANGED <<registryVars, selectorVars, noopVars, shutdownVars, sanitizeVars, enumerateVars, failureVars, pendingVars>>

SpecPipeline ==
  Init({Undefined, "true", "false"}, {NoAttributes}) /\ [][PipelineNext]_vars

\* ------------------------------------------------------------------------
\* C16
\* ------------------------------------------------------------------------

\* The calls so far are the span_started of a root agent_run r, the
\* span_started of an llm_generation child c of r, the span_ended of c and the
\* span_ended of r, in this order.
RootAndGeneration(r, c) ==
  /\ Len(delivered) = 4
  /\ delivered[1].type = SPAN_STARTED
  /\ delivered[1].span.id = r
  /\ delivered[1].span.isRootSpan
  /\ delivered[1].span.type = "agent_run"
  /\ delivered[2].type = SPAN_STARTED
  /\ delivered[2].span.id = c
  /\ delivered[2].span.parent = r
  /\ delivered[2].span.type = LLM_GENERATION
  /\ delivered[3].type = SPAN_ENDED
  /\ delivered[3].span.id = c
  /\ delivered[4].type = SPAN_ENDED
  /\ delivered[4].span.id = r

\* What the backend sees of the calls i: the call, the object it is made on,
\* the id, and the output, model and usage it carries.
Seen(i) ==
  [call |-> backend[i].call, target |-> backend[i].target, id |-> backend[i].id,
   output |-> backend[i].output, model |-> backend[i].model,
   usage |-> backend[i].usage]

\* C16: when span_started(root agent_run), span_started(child
\* llm_generation), span_ended(child), span_ended(root) are handled in this
\* order, the backend sees exactly six calls: the trace created, the root's
\* span created under the trace, the generation created under the root's
\* span with the child's model and usage, the generation ended with the
\* child's output, the root's span ended, the trace updated with the root's
\* output.
C16_EndToEndOrder ==
  \A r \in DOMAIN spans, c \in DOMAIN spans :
    RootAndGeneration(r, c) =>
      /\ Len(backend) = 6
      /\ Seen(1) = [call |-> "client.trace", target |-> <<"client", 0>>, id |-> r,
                    output |-> Undefined, model |-> Undefined, usage |-> Undefined]
      /\ Seen(2) = [call |-> "span", target |-> <<"trace", r>>, id |-> r,
                    output |-> Undefined, model |-> Undefined, usage |-> Undefined]
      /\ Seen(3) = [call |-> "generation", target |-> <<"span", r>>, id |-> c,
                    output |-> Undefined,
                    model |-> delivered[2].span.metadata.model,
                    usage |-> delivered[2].span.metadata.usage]
      /\ Seen(4) = [call |-> "end", target |-> <<"generation", c>>, id |-> c,
                    output |-> delivered[3].span.output,
                    model |-> Undefined, usage |-> Undefined]
      /\ Seen(5) = [call |-> "end", target |-> <<"span", r>>, id |-> r,
                    output |-> delivered[4].span.output,
                    model |-> Undefined, usage |-> Undefined]
      /\ Seen(6) = [call |-> "trace.update", target |-> <<"trace", r>>, id |-> r,
                    output |-> delivered[4].span.output,
                    model |-> Undefined, usage |-> Undefined]

\* The four events were handled for a generation that names its model and
\* usage, and child and root ended with different outputs.
C16_Witness ==
  /\ RootAndGeneration(1, 2)
  /\ delivered[2].span.metadata = Metadata("gpt-4", "tokens")
  /\ delivered[3].span.output = "done"
  /\ delivered[4].span.output = Undefined
  /\ Len(backend) = 6

\* ------------------------------------------------------------------------
\* C17
\* ------------------------------------------------------------------------

\* C17: the end call made for a span_ended event has level ERROR and the
\* span's errorInfo.message as its status message when the span carries
\* errorInfo, and level DEFAULT and no status message when it does not.
C17_ErrorOnEnd ==
  [][(event'.type = SPAN_ENDED /\ Len(delivered') = Len(delivered) + 1) =>
       LET span == delivered'[Len(delivered')].span
       IN \A i \in DOMAIN effects' :
            effects'[i].call = "end" =>
              IF span.errorInfo # Undefined
                THEN /\ effects'[i].level = "ERROR"
                     /\ effects'[i].statusMessage = span.errorInfo
                ELSE /\ effects'[i].level = "DEFAULT"
                     /\ effects'[i].statusMessage = Undefined]_vars

\* A span that carries errorInfo was ended and the backend has seen its end
\* call, with the error level and the message.
C17_Witness ==
  /\ event.type = SPAN_ENDED
  /\ delivered # <<>>
  /\ delivered[Len(delivered)].type = SPAN_ENDED
  /\ delivered[Len(delivered)].span.errorInfo = "tool failed"
  /\ \E i \in DOMAIN effects :
       /\ effects[i].call = "end"
       /\ effects[i].level = "ERROR"
       /\ effects[i].statusMessage = "tool failed"

\* ------------------------------------------------------------------------
\* C20
\* ------------------------------------------------------------------------

\* C20: shutdown asks the backend client to drain and waits for it; when it
\* completes, the exporter holds no trace entry and no span handle, whatever
\* it held before, the traces whose root has not ended included.
C20_ShutdownReleasesAll ==
  [][/\ (~draining /\ draining') =>
          /\ Calls(effects') = <<"client.shutdownAsync">>
          /\ traceMap' = traceMap
     /\ event'.type = "shutdown" =>
          /\ draining /\ ~draining'
          /\ traceMap' = EmptyMap
          /\ HandleIds(traceMap') = {}]_vars

\* A shutdown has completed that found the trace of a root that had not
\* ended, with handles in it: nothing is held.
C20_Witness ==
  /\ event.type = "shutdown"
  /\ traceMap = EmptyMap
  /\ Len(delivered) = 3
  /\ delivered[1].type = SPAN_STARTED
  /\ delivered[1].span.isRootSpan
  /\ delivered[2].type = SPAN_STARTED
  /\ delivered[2].span.parent = delivered[1].span.id
  /\ delivered[3].type = "shutdown"

\* ------------------------------------------------------------------------
\* sanitizeMetadata on its own
\* ------------------------------------------------------------------------

\* The keys of the attribute maps.
AttributeKeys == {"k1", "k2"}

\* The attribute maps over these keys, and no map.
AttributeMaps ==
  {NoAttributes} \cup
  UNION {{Attributes(entries) : entries \in [keys -> AttributeValues]} :
           keys \in SUBSET AttributeKeys}

\* sanitizeMetadata is applied to the attribute map.
Sanitize ==
  /\ sanitizePc = "called"
  /\ sanitized' = SanitizeMetadata(attributes)
  /\ sanitizePc' = "sanitized"
  /\ UNCHANGED <<attributes, resanitized>>

\* sanitizeMetadata is applied to its own result.
Resanitize ==
  /\ sanitizePc = "sanitized"
  /\ resanitized' = SanitizeMetadata(Attributes(sanitized))
  /\ sanitizePc' = "resanitized"
  /\ UNCHANGED <<attributes, sanitized>>

SanitizeNext ==
  \/ Sanitize
       /\ UNCHANGED <<registryVars, selectorVars, exporterVars, noopVars,
                      shutdownVars, pipelineVars, enumerateVars, failureVars, pendingVars>>
  \/ Resanitize
       /\ UNCHANGED <<registryVars, selectorVars, exporterVars, noopVars,
                      shutdownVars, pipelineVars, enumerateVars, failureVars, pendingVars>>

SpecSanitize ==
  Init({Undefined}, AttributeMaps) /\ [][SanitizeNext]_vars

\* ------------------------------------------------------------------------
\* C18
\* ------------------------------------------------------------------------

\* The value comes back from its JSON text as it went in.
RoundTrips(value) ==
  /\ ~JsonStringify(value).threw
  /\ ~JsonParse(JsonStringify(value).text).threw
  /\ JsonParse(JsonStringify(value).text).value = value

\* C18: the sanitized map holds exactly the entries of the input whose value
\* round-trips through the JSON encoding, with key and value unchanged, so a
\* value that fails the round trip is excluded; sanitizing the sanitized map
\* returns it unchanged; no map sanitizes to the empty map.
C18_Sanitization ==
  /\ sanitizePc # "called" =>
       /\ DOMAIN sanitized =
            {key \in DOMAIN attributes.entries :
               RoundTrips(attributes.entries[key])}
       /\ \A key \in DOMAIN sanitized : sanitized[key] = attributes.entries[key]
       /\ ~attributes.defined => sanitized = EmptyMap
  /\ sanitizePc = "resanitized" => resanitized = sanitized

\* ------------------------------------------------------------------------
\* C2
\* ------------------------------------------------------------------------

\* C2: once the span_ended of a root has been handled, the exporter holds no
\* trace entry for that trace and no span handle of any span of it, whatever
\* the depth of the hierarchy; the trace map holds at most one entry per
\* root that has not ended, so it is empty again when every root has ended.
C2_RootEndReleasesTrace ==
  /\ \A r \in Roots :
       r \in endHandled =>
         /\ r \notin DOMAIN traceMap
         /\ \A s \in DOMAIN spans :
              spans[s].trace = r => s \notin HandleIds(traceMap)
  /\ Cardinality(DOMAIN traceMap) <= Cardinality(Roots \ endHandled)

\* A hierarchy three levels deep whose root has just been ended: the end
\* call, the trace update and the delete were made and the map is empty.
C2_Witness ==
  /\ \E r \in Roots, c \in DOMAIN spans, g \in DOMAIN spans :
       /\ spans[c].parent = r
       /\ spans[g].parent = c
       /\ {r, c, g} \subseteq endHandled
       /\ event = [type |-> SPAN_ENDED, span |-> r]
  /\ Calls(Handled(effects)) = <<"end", "trace.update", "traceMap.delete">>
  /\ traceMap = EmptyMap

\* ------------------------------------------------------------------------
\* C3
\* ------------------------------------------------------------------------

C4_ParentRouting ==
  [][event'.type = SPAN_STARTED /\ spans'[event'.span].trace \in DOMAIN traceMap' =>
       LET s == event'.span
           t == spans'[s].trace
           p == spans'[s].parent
           kind == IF spans'[s].type = LLM_GENERATION THEN "generation" ELSE "span"
           under == IF p # NoParent /\ HasHandle(traceMap, p, t)
                      THEN Ref(traceMap[t].spans[p])
                      ELSE <<"trace", t>>
       IN /\ HasHandle(traceMap', s, t)
          /\ traceMap'[t].spans[s].kind = kind
          /\ traceMap'[t].spans[s].under = under
          /\ \E i \in DOMAIN effects' :
               /\ effects'[i].call = kind
               /\ effects'[i].id = s
               /\ effects'[i].target = under]_vars

\* A generation whose parent was dropped has just been created under the
\* trace, next to a span created under the handle of its parent.
C4_Witness ==
  /\ event.type = SPAN_STARTED
  /\ \E t \in DOMAIN traceMap :
       /\ event.span \in DOMAIN traceMap[t].spans
       /\ spans[event.span].parent # NoParent
       /\ spans[event.span].parent \notin DOMAIN traceMap[t].spans
       /\ traceMap[t].spans[event.span].kind = "generation"
       /\ traceMap[t].spans[event.span].under = <<"trace", t>>

\* ------------------------------------------------------------------------
\* C5
\* ------------------------------------------------------------------------

\* C5: span_ended of a root that has a handle ends the root's backend
\* object, then updates the trace with the root's output, then deletes the
\* trace entry; each once, in that order.
C5_RootEndOrder ==
  [][(/\ event'.type = SPAN_ENDED
      /\ event'.span \in Roots
      /\ HasHandle(traceMap, event'.span, event'.span)) =>
       LET r == event'.span
           done == Handled(effects')
       IN /\ Calls(done) = <<"end", "trace.update", "traceMap.delete">>
          /\ done[1].target = Ref(traceMap[r].spans[r])
          /\ done[2].target = Ref(traceMap[r].trace)
          /\ done[2].output = done[1].output
          /\ done[3].id = r
          /\ r \notin DOMAIN traceMap']_vars

\* A root with an output of its own has just been ended.
C5_Witness ==
  /\ event.type = SPAN_ENDED
  /\ event.span \in Roots
  /\ Len(Handled(effects)) = 3
  /\ effects[2].call = "trace.update"
  /\ effects[2].output = "done"

\* ------------------------------------------------------------------------
\* C6
\* ------------------------------------------------------------------------

\* C6: a span_ended delivered again for a span whose span_ended has been
\* handled makes no backend call and leaves the maps as they are, for root
\* and non-root spans.
C6_DuplicateEndHasNoEffect ==
  [][(event'.type = SPAN_ENDED /\ event'.span \in endHandled) =>
       /\ traceMap' = traceMap
       /\ \A i \in DOMAIN effects' : effects'[i].call \notin BackendCalls]_vars

\* ------------------------------------------------------------------------
\* C13
\* ------------------------------------------------------------------------

\* The event types exportEvent handles.
EventTypes == {SPAN_STARTED, SPAN_UPDATED, SPAN_ENDED}

\* The effects eff hold no call to the backend.
NoBackendCall(eff) == \A i \in DOMAIN eff : eff[i].call \notin BackendCalls

\* C13: an update or end call is made only on the handle held for the span's
\* id, and a handle is held only for an object the backend was asked to
\* create; a span_updated or span_ended for an id without a handle is dropped
\* with no backend call and no change of the mappings.
C13_NoCallWithoutHandle ==
  [][/\ \A i \in DOMAIN effects' :
          effects'[i].call \in {"update", "end"} =>
            /\ event'.type \in {SPAN_UPDATED, SPAN_ENDED}
            /\ effects'[i].id = event'.span
            /\ HasHandle(traceMap, event'.span, spans'[event'.span].trace)
            /\ effects'[i].target =
                 Ref(traceMap[spans'[event'.span].trace].spans[event'.span])
     /\ \A s \in HandleIds(traceMap') \ HandleIds(traceMap) :
          \E i \in DOMAIN effects' :
            /\ effects'[i].call \in {"span", "generation"}
            /\ effects'[i].id = s
     /\ (/\ event'.type \in {SPAN_UPDATED, SPAN_ENDED}
         /\ ~HasHandle(traceMap, event'.span, spans'[event'.span].trace)) =>
          /\ traceMap' = traceMap
          /\ NoBackendCall(effects')]_vars

\* A span_updated was just dropped: the span's trace has an entry, but the
\* span itself, whose span_started never came, has no handle in it.
C13_Witness ==
  /\ event.type = SPAN_UPDATED
  /\ spans[event.span].trace \in DOMAIN traceMap
  /\ ~HasHandle(traceMap, event.span, spans[event.span].trace)
  /\ NoBackendCall(effects)

\* ------------------------------------------------------------------------
\* C14
\* ------------------------------------------------------------------------

OnlyTrace(tm, t) == [u \in (DOMAIN tm) \cap {t} |-> tm[u]]

\* The handler that exportEvent runs for an event of the given type.
Handle(type, st, span) ==
  CASE type = SPAN_STARTED -> HandleSpanStarted(st, span)
    [] type = SPAN_UPDATED -> HandleSpanUpdated(st, span)
    [] type = SPAN_ENDED -> HandleSpanEnded(st, span)

\* C15: an event of one trace leaves the entry and the handles of every other
\* trace as they were, and what it does to its own trace, in mapping state
\* and in backend calls, is what it would do were that trace the only one
\* the exporter holds; so the traces, however interleaved, each end as they
\* would alone.
C15_CrossTraceIsolation ==
  [][(event'.type \in EventTypes /\ Len(delivered') = Len(delivered) + 1) =>
       LET span == delivered'[Len(delivered')].span
           t == span.trace
           handled == Handled(effects')
           alone == Handle(event'.type, State(OnlyTrace(traceMap, t), <<>>), span)
       IN /\ \A u \in (DOMAIN traceMap \cup DOMAIN traceMap') \ {t} :
               /\ u \in DOMAIN traceMap
               /\ u \in DOMAIN traceMap'
               /\ traceMap'[u] = traceMap[u]
          /\ \A i \in DOMAIN handled :
               IF handled[i].call \in {"client.trace", "traceMap.set",
                                       "trace.update", "traceMap.delete"}
                 THEN handled[i].id = t
                 ELSE IF handled[i].call = "spans.set"
                        THEN handled[i].target = <<"trace", t>>
                        ELSE handled[i].id = span.id
          /\ alone.effects = handled
          /\ alone.traceMap = OnlyTrace(traceMap', t)]_vars

\* The span_ended of one root was just handled while the trace of another
\* root is open: the other trace's entry is still held.
C15_Witness ==
  /\ event.type = SPAN_ENDED
  /\ Len(delivered) = 3
  /\ \E i \in DOMAIN effects :
       effects[i].call = "traceMap.delete" /\ effects[i].id = event.span
  /\ \E u \in DOMAIN traceMap : u # event.span /\ u \notin endHandled

\* ------------------------------------------------------------------------
\* C19
\* ------------------------------------------------------------------------

\* The flushes among the effects eff.
Flushes(eff) == SelectSeq(eff, LAMBDA e : e.call = "client.flushAsync")

\* C19: with realtime on, every exportEvent call makes exactly one flush of
\* the backend client, as its last effect, after what the handler did; with
\* realtime off, which is what a configuration without the option gives, no
\* exportEvent call flushes.
C19_RealtimeFlush ==
  [][event'.type \in EventTypes =>
       /\ Constructor(Undefined) = FALSE
       /\ IF realtime
            THEN /\ Len(Flushes(effects')) = 1
                 /\ effects'[Len(effects')].call = "client.flushAsync"
            ELSE Len(Flushes(effects')) = 0]_vars

\* With realtime on, the span_ended of a child was handled: the end call,
\* then the flush.
C19_Witness ==
  /\ realtime
  /\ event.type = SPAN_ENDED
  /\ Calls(effects) = <<"end", "client.flushAsync">>

\* ------------------------------------------------------------------------
\* C1
\* ------------------------------------------------------------------------

\* C1: register(name, instance) on a registered name throws and leaves the
\* registry as it was (same names, get(name) still the first instance); on
\* an unregistered name it succeeds and get(name) is the new instance.
C1_RegisterDuplicateFails ==
  [][result'.op = "register" =>
       IF MapHas(instances, result'.name)
         THEN /\ result'.outcome = "throw"
              /\ instances' = instances
              /\ MapGet(instances', result'.name) = MapGet(instances, result'.name)
              /\ MapKeys(instances') = MapKeys(instances)
         ELSE /\ result'.outcome = "ok"
              /\ MapGet(instances', result'.name) = result'.instance
              /\ MapKeys(instances') = MapKeys(instances) \cup {result'.name}]_vars

\* A second instance was offered under a registered name and refused.
C1_Witness ==
  /\ result.op = "register"
  /\ result.outcome = "throw"
  /\ MapHas(instances, result.name)
  /\ MapGet(instances, result.name) # result.instance

\* ------------------------------------------------------------------------
\* The exporter under spans of every type
\* ------------------------------------------------------------------------

\* Spans of any AISpanType are created under any parent and ended.
KindsNext ==
  \/ \E p \in 0..MaxSpans, t \in AISpanType :
       StartSpan(p, t, FALSE)
         /\ UNCHANGED <<registryVars, selectorVars, noopVars, restVars>>
  \/ \E s \in 1..MaxSpans :
       EndSpan(s, Undefined, Undefined)
         /\ UNCHANGED <<registryVars, selectorVars, noopVars, restVars>>

SpecKinds ==
  Init({Undefined}, {NoAttributes}) /\ [][KindsNext]_vars

\* ------------------------------------------------------------------------
\* C21
\* ------------------------------------------------------------------------

\* The effects of eff that make the call.
CallsOf(eff, call) == SelectSeq(eff, LAMBDA e : e.call = call)

EnumNames == {"a", "b"}

\* register, unregister, clear and shutdown of the registry, getAll, and the
\* caller's changes of the Map getAll returned.
EnumerateNext ==
  \/ \E n \in EnumNames, i \in InstanceRefs :
       Register(n, i) /\ SnapshotRetained
         /\ UNCHANGED <<selectorVars, exporterVars, noopVars, shutdownVars,
                        pipelineVars, sanitizeVars, failureVars, pendingVars>>
  \/ \E n \in EnumNames :
       Unregister(n) /\ SnapshotRetained
         /\ UNCHANGED <<selectorVars, exporterVars, noopVars, shutdownVars,
                        pipelineVars, sanitizeVars, failureVars, pendingVars>>
  \/ Clear /\ SnapshotRetained
       /\ UNCHANGED <<selectorVars, exporterVars, noopVars, shutdownVars,
                      pipelineVars, sanitizeVars, failureVars, pendingVars>>
  \/ RegistryShutdownStart /\ SnapshotRetained
       /\ UNCHANGED <<selectorVars, exporterVars, noopVars, pipelineVars,
                      sanitizeVars, failureVars, pendingVars>>
  \/ \E i \in 1..Cardinality(EnumNames) :
       InstanceShutdownSettles(i, "fulfilled") /\ SnapshotRetained
         /\ UNCHANGED <<selectorVars, exporterVars, noopVars, pipelineVars,
                        sanitizeVars, failureVars, pendingVars>>
  \/ RegistryShutdownFinish /\ SnapshotRetained
       /\ UNCHANGED <<selectorVars, exporterVars, noopVars, pipelineVars,
                      sanitizeVars, failureVars, pendingVars>>
  \/ GetAllCall
       /\ UNCHANGED <<selectorVars, exporterVars, noopVars, shutdownVars,
                      pipelineVars, sanitizeVars, failureVars, pendingVars>>
  \/ \E n \in EnumNames, i \in InstanceRefs :
       SnapshotChange(MapSet(snapshot.entries, n, i))
         /\ UNCHANGED <<selectorVars, exporterVars, noopVars, shutdownVars,
                        pipelineVars, sanitizeVars, failureVars, pendingVars>>
  \/ \E n \in EnumNames :
       SnapshotChange(MapDelete(snapshot.entries, n))
         /\ UNCHANGED <<selectorVars, exporterVars, noopVars, shutdownVars,
                        pipelineVars, sanitizeVars, failureVars, pendingVars>>

SpecEnumerate ==
  Init({Undefined}, {NoAttributes}) /\ [][EnumerateNext]_vars

\* ------------------------------------------------------------------------
\* C22
\* ------------------------------------------------------------------------

\* C22: the Map getAll returns holds the entries registered when it is
\* called, and getAll leaves the registry as it is; no later register,
\* unregister, clear or shutdown of the registry changes the returned Map;
\* a change the caller makes to it does not change the registry.
C22_GetAllSnapshot ==
  [][/\ result'.op = "getAll" =>
          /\ snapshot'.entries = instances
          /\ instances' = instances
     /\ result'.op \in {"register", "unregister", "clear", "shutdown"} =>
          snapshot'.entries = snapshot.entries
     /\ result'.op = "snapshot.change" => instances' = instances]_vars

\* An enumeration of one entry was taken, the caller added an entry to it
\* and the registry was cleared: the three differ as they should.
C22_Witness ==
  /\ result.op = "clear"
  /\ instances = <<>>
  /\ Len(snapshot.entries) = 2

\* ------------------------------------------------------------------------
\* C23
\* ------------------------------------------------------------------------

\* C23: unregister(name) on a registered name returns true and removes the
\* entry of that name and no other; on an unregistered name it returns false
\* and changes nothing. Either way get(name) is absent afterwards, and a
\* register(name, instance) that follows succeeds.
C23_Unregister ==
  [][/\ result'.op = "unregister" =>
          /\ IF MapHas(instances, result'.name)
               THEN /\ result'.outcome = "true"
                    /\ MapKeys(instances') = MapKeys(instances) \ {result'.name}
               ELSE /\ result'.outcome = "false"
                    /\ instances' = instances
          /\ \A n \in MapKeys(instances) \ {result'.name} :
               MapGet(instances', n) = MapGet(instances, n)
          /\ instances' = SelectSeq(instances, LAMBDA e : e.name # result'.name)
          /\ ~MapHas(instances', result'.name)
          /\ MapGet(instances', result'.name) = Undefined
     /\ (/\ result.op = "unregister"
         /\ result'.op = "register"
         /\ result'.name = result.name) =>
          /\ result'.outcome = "ok"
          /\ MapGet(instances', result'.name) = result'.instance]_vars

\* A registered name was unregistered while another name stays registered.
C23_Witness ==
  /\ result.op = "unregister"
  /\ result.outcome = "true"
  /\ ~MapHas(instances, result.name)
  /\ instances # <<>>

\* ------------------------------------------------------------------------
\* C24
\* ------------------------------------------------------------------------

\* C24: whatever register calls run while shutdown of the registry awaits the
\* instances, every instance the shutdown then removes from the registry is
\* one whose shutdown it has called.
C24_NoInstanceDroppedUnshut ==
  [][(shutdownPc = "awaiting" /\ shutdownPc' = "idle") =>
       \A i \in DOMAIN instances :
         /\ ~MapHas(instances', instances[i].name)
         /\ \E j \in DOMAIN shutdownPromises :
              shutdownPromises[j].instance = instances[i].instance]_vars

\* ------------------------------------------------------------------------
\* C25
\* ------------------------------------------------------------------------

\* C25: handling a span_updated, or the span_ended of a span that is not a
\* root, leaves the trace map and the span handles as they are; a span handle
\* goes only when the root of its trace ends or the exporter shuts down.
C25_HandleRetention ==
  [][/\ (\/ event'.type = SPAN_UPDATED
         \/ /\ event'.type = SPAN_ENDED
            /\ spans'[event'.span].parent # NoParent) =>
          traceMap' = traceMap
     /\ \A t \in DOMAIN traceMap :
          \A s \in DOMAIN traceMap[t].spans :
            ~HasHandle(traceMap', s, t) =>
              \/ event'.type = "shutdown"
              \/ /\ event'.type = SPAN_ENDED
                 /\ event'.span = t
                 /\ spans'[event'.span].parent = NoParent]_vars

\* The span_ended of a child was handled, its end call made, and its handle
\* is still held.
C25_Witness ==
  /\ event.type = SPAN_ENDED
  /\ spans[event.span].parent # NoParent
  /\ HasHandle(traceMap, event.span, spans[event.span].trace)
  /\ \E i \in DOMAIN effects : effects[i].call = "end"

\* ------------------------------------------------------------------------
\* The exporter with a backend whose calls may throw
\* ------------------------------------------------------------------------

\* The calls on the backend client and its objects that may throw.
ThrowingCalls == BackendCalls \cup {"client.flushAsync"}

\* No call threw.
NoThrow == [call |-> "none", id |-> 0]

\* The write to the maps that stands at place i of the effects eff, applied
\* to the trace map tm: traceMap.set, traceData.spans.set of the object the
\* call before it created, traceMap.delete.
ApplyWrite(tm, eff, i) ==
  CASE eff[i].call = "traceMap.set" ->
         Put(tm, eff[i].id,
             [trace |-> [kind |-> "trace", id |-> eff[i].id], spans |-> EmptyMap])
    [] eff[i].call = "spans.set" ->
         Put(tm, eff[i].target[2],
             [tm[eff[i].target[2]] EXCEPT
                !.spans = Put(@, eff[i].id,
                              [kind |-> eff[i - 1].call, id |-> eff[i - 1].id,
                               under |-> eff[i - 1].target])])
    [] eff[i].call = "traceMap.delete" -> Remove(tm, eff[i].id)
    [] OTHER -> tm

\* The writes among the first n effects of eff, applied to tm in order.
RECURSIVE ApplyWrites(_, _, _)
ApplyWrites(tm, eff, n) ==
  IF n = 0 THEN tm ELSE ApplyWrite(ApplyWrites(tm, eff, n - 1), eff, n)

\* What exportEvent would do were no call to throw: the handler's effects
\* and, in realtime mode, the flush.
CallsOfEvent(ev) ==
  Handle(ev.type, State(traceMap, <<>>), ev.span).effects \o
    (IF realtime
       THEN << Effect("client.flushAsync", <<"client", 0>>, 0,
                      Undefined, Undefined, Undefined) >>
       ELSE <<>>)

\* exportEvent in which every statement runs although call k threw.
ExportEventThrowsAndGoesOn(ev, k) ==
  LET calls == CallsOfEvent(ev)
  IN /\ k \in DOMAIN calls
     /\ calls[k].call \in ThrowingCalls
     /\ effects' = SubSeq(calls, 1, k)
     /\ traceMap' = ApplyWrites(traceMap, calls, Len(calls))
     /\ thrown' = [call |-> calls[k].call, id |-> calls[k].id]
     /\ event' = [type |-> ev.type, span |-> ev.span.id]
     /\ endHandled' = IF ev.type = SPAN_ENDED
                        THEN endHandled \cup {ev.span.id}
                        ELSE endHandled
     /\ UNCHANGED realtime

\* exportEvent(event) in which the k-th call on the backend throws: nothing
\* catches it, so the statements before the call have run, those after it
\* have not, and exportEvent rejects.
ExportEventThrows(ev, k) ==
  LET calls == CallsOfEvent(ev)
  IN /\ k \in DOMAIN calls
     /\ calls[k].call \in ThrowingCalls
     /\ effects' = SubSeq(calls, 1, k)
     /\ traceMap' = ApplyWrites(traceMap, calls, k - 1)
     /\ thrown' = [call |-> calls[k].call, id |-> calls[k].id]
     /\ event' = [type |-> ev.type, span |-> ev.span.id]
     /\ endHandled' = IF ev.type = SPAN_ENDED
                        THEN endHandled \cup {ev.span.id}
                        ELSE endHandled
     /\ UNCHANGED realtime

\* The most effects of one exportEvent call: trace, set, create, set, flush.
MaxCalls == 5

\* The most spans created in a run with a throwing backend.
MaxFailureSpans == 2

\* A span is created and the export of its span_started throws.
StartSpanThrows(parent, type, k) ==
  /\ Len(spans) < MaxFailureSpans
  /\ parent \in {NoParent} \cup DOMAIN spans
  /\ spans' = Append(spans, NewSpan(Len(spans) + 1, parent, type))
  /\ ExportEventThrows(
       [type |-> SPAN_STARTED,
        span |-> [id |-> Len(spans) + 1, type |-> type, parent |-> parent,
                  trace |-> spans'[Len(spans) + 1].trace,
                  isRootSpan |-> parent = NoParent,
                  metadata |-> NoMetadata,
                  output |-> Undefined, errorInfo |-> Undefined]], k)

\* update() on a span, and the export of its span_updated throws.
UpdateSpanThrows(id, k) ==
  /\ id \in DOMAIN spans
  /\ ExportEventThrows(
       [type |-> SPAN_UPDATED, span |-> Snapshot(id, Undefined, Undefined)], k)
  /\ UNCHANGED spans

\* end() on a span, and the export of its span_ended throws.
EndSpanThrows(id, k) ==
  /\ id \in DOMAIN spans
  /\ ExportEventThrows(
       [type |-> SPAN_ENDED, span |-> Snapshot(id, Undefined, Undefined)], k)
  /\ UNCHANGED spans

\* Spans are started, updated and ended; each export succeeds or throws.
FailureNext ==
  \/ \E p \in 0..MaxFailureSpans, t \in ExporterTypes :
       Len(spans) < MaxFailureSpans /\ StartSpan(p, t, FALSE) /\ thrown' = NoThrow
         /\ UNCHANGED <<registryVars, selectorVars, noopVars, shutdownVars,
                        pipelineVars, sanitizeVars, enumerateVars, pendingVars>>
  \/ \E s \in 1..MaxFailureSpans :
       UpdateSpan(s, Undefined) /\ thrown' = NoThrow
         /\ UNCHANGED <<registryVars, selectorVars, noopVars, shutdownVars,
                        pipelineVars, sanitizeVars, enumerateVars, pendingVars>>
  \/ \E s \in 1..MaxFailureSpans :
       EndSpan(s, Undefined, Undefined) /\ thrown' = NoThrow
         /\ UNCHANGED <<registryVars, selectorVars, noopVars, shutdownVars,
                        pipelineVars, sanitizeVars, enumerateVars, pendingVars>>
  \/ \E p \in 0..MaxFailureSpans, t \in ExporterTypes, k \in 1..MaxCalls :
       StartSpanThrows(p, t, k)
         /\ UNCHANGED <<registryVars, selectorVars, noopVars, shutdownVars,
                        pipelineVars, sanitizeVars, enumerateVars, pendingVars>>
  \/ \E s \in 1..MaxFailureSpans, k \in 1..MaxCalls :
       UpdateSpanThrows(s, k)
         /\ UNCHANGED <<registryVars, selectorVars, noopVars, shutdownVars,
                        pipelineVars, sanitizeVars, enumerateVars, pendingVars>>
  \/ \E s \in 1..MaxFailureSpans, k \in 1..MaxCalls :
       EndSpanThrows(s, k)
         /\ UNCHANGED <<registryVars, selectorVars, noopVars, shutdownVars,
                        pipelineVars, sanitizeVars, enumerateVars, pendingVars>>

SpecFailure ==
  Init({Undefined, "true"}, {NoAttributes}) /\ [][FailureNext]_vars

\* ------------------------------------------------------------------------
\* C26
\* ------------------------------------------------------------------------

\* C26: when a backend call throws while an event is handled, exportEvent
\* ends at that call, and the mappings hold what the statements before it
\* wrote and nothing more: a throwing client.trace leaves the mappings as
\* they were; a throwing span or generation creation leaves no handle for the
\* span, next to the trace entry a root's start had just set; a throwing
\* update or end, or trace.update on a root's end, leaves the trace entry and
\* every handle in place.
C26_StateOnBackendFailure ==
  [][thrown'.call # "none" =>
       LET t == spans'[event'.span].trace
       IN /\ effects'[Len(effects')].call = thrown'.call
          /\ \A i \in 1..(Len(effects') - 1) :
               effects'[i].call # "client.flushAsync"
          /\ thrown'.call = "client.trace" => traceMap' = traceMap
          /\ thrown'.call \in {"span", "generation"} =>
               /\ ~HasHandle(traceMap', event'.span, t)
               /\ \A u \in DOMAIN traceMap : traceMap'[u] = traceMap[u]
               /\ DOMAIN traceMap' =
                    DOMAIN traceMap \cup
                      (IF spans'[event'.span].parent = NoParent THEN {t} ELSE {})
          /\ thrown'.call \in {"update", "end", "trace.update"} =>
               traceMap' = traceMap
          /\ thrown'.call = "client.flushAsync" =>
               traceMap' = Handle(event'.type, State(traceMap, <<>>),
                                  [id |-> event'.span,
                                   type |-> spans'[event'.span].type,
                                   parent |-> spans'[event'.span].parent,
                                   trace |-> t,
                                   isRootSpan |-> spans'[event'.span].parent = NoParent,
                                   metadata |-> NoMetadata,
                                   output |-> Undefined,
                                   errorInfo |-> Undefined]).traceMap]_vars

\* The trace.update of a root's span_ended threw after the root's end call:
\* the trace entry is held, with the handles of the root and of its child.
C26_Witness ==
  /\ thrown.call = "trace.update"
  /\ event.type = SPAN_ENDED
  /\ Calls(effects) = <<"end", "trace.update">>
  /\ event.span \in DOMAIN traceMap
  /\ Cardinality(DOMAIN traceMap[event.span].spans) = 2

\* ------------------------------------------------------------------------
\* exportEvent calls that are not awaited
\* ------------------------------------------------------------------------

\* The most exportEvent calls issued in one run.
MaxIssued == 3

\* The flush of realtime mode.
Flush ==
  Effect("client.flushAsync", <<"client", 0>>, 0, Undefined, Undefined, Undefined)

\* The pending calls without the one at place i.
WithoutCall(i) ==
  [j \in 1..(Len(pendingCalls) - 1) |->
     IF j < i THEN pendingCalls[j] ELSE pendingCalls[j + 1]]

\* exportEvent that leaves out the handler while the flush of an earlier call
\* is pending.
ExportEventCallSkipsWhileFlushing(ev) ==
  /\ Len(delivered) < MaxIssued
  /\ LET flushing == \E i \in DOMAIN pendingCalls : pendingCalls[i].pc = "flushing"
         st == IF flushing
                 THEN State(traceMap, <<>>)
                 ELSE Handle(ev.type, State(traceMap, <<>>), ev.span)
     IN /\ traceMap' = st.traceMap
        /\ effects' = st.effects
        /\ backend' = backend \o BackendOnly(st.effects)
  /\ delivered' = Append(delivered, ev)
  /\ pendingCalls' = Append(pendingCalls,
                            [call |-> Len(delivered) + 1, pc |-> "handled"])
  /\ event' = [type |-> ev.type, span |-> ev.span.id]
  /\ endHandled' = IF ev.type = SPAN_ENDED
                     THEN endHandled \cup {ev.span.id}
                     ELSE endHandled
  /\ UNCHANGED <<realtime, draining>>

\* exportEvent(event) is called: the async function runs up to its first
\* suspension. The handlers call the backend and write the maps without an
\* await before them (the one await of handleSpanStarted is on a create
\* function that has no await), so the whole handling happens in the call;
\* what is left for later is the resumption after `await this.handle...`.
ExportEventCall(ev) ==
  /\ Len(delivered) < MaxIssued
  /\ LET st == Handle(ev.type, State(traceMap, <<>>), ev.span)
     IN /\ traceMap' = st.traceMap
        /\ effects' = st.effects
        /\ backend' = backend \o BackendOnly(st.effects)
  /\ delivered' = Append(delivered, ev)
  /\ pendingCalls' = Append(pendingCalls,
                            [call |-> Len(delivered) + 1, pc |-> "handled"])
  /\ event' = [type |-> ev.type, span |-> ev.span.id]
  /\ endHandled' = IF ev.type = SPAN_ENDED
                     THEN endHandled \cup {ev.span.id}
                     ELSE endHandled
  /\ UNCHANGED <<realtime, draining>>

\* A call resumes after the await of its handler: in realtime mode it calls
\* client.flushAsync() and awaits it, otherwise it completes.
ExportEventResumes(i) ==
  /\ i \in DOMAIN pendingCalls
  /\ pendingCalls[i].pc = "handled"
  /\ IF realtime
       THEN /\ pendingCalls' = [pendingCalls EXCEPT ![i].pc = "flushing"]
            /\ effects' = <<Flush>>
       ELSE /\ pendingCalls' = WithoutCall(i)
            /\ effects' = <<>>
  /\ event' = [type |-> "resumed", span |-> 0]
  /\ UNCHANGED <<realtime, traceMap, spans, endHandled, pipelineVars>>

\* The flush of a call settles and the call completes.
FlushSettles(i) ==
  /\ i \in DOMAIN pendingCalls
  /\ pendingCalls[i].pc = "flushing"
  /\ pendingCalls' = WithoutCall(i)
  /\ effects' = <<>>
  /\ event' = [type |-> "flushed", span |-> 0]
  /\ UNCHANGED <<realtime, traceMap, spans, endHandled, pipelineVars>>

\* A span is created and exportEvent called with its span_started, without
\* waiting for the calls before.
CallStarted(parent, type) ==
  /\ Len(spans) < MaxSpans
  /\ parent \in {NoParent} \cup DOMAIN spans
  /\ spans' = Append(spans, NewSpan(Len(spans) + 1, parent, type))
  /\ ExportEventCall(
       [type |-> SPAN_STARTED,
        span |-> [id |-> Len(spans) + 1, type |-> type, parent |-> parent,
                  trace |-> spans'[Len(spans) + 1].trace,
                  isRootSpan |-> parent = NoParent,
                  metadata |-> NoMetadata,
                  output |-> Undefined, errorInfo |-> Undefined]])

\* exportEvent is called with the span_updated of a span.
CallUpdated(id) ==
  /\ id \in DOMAIN spans
  /\ ExportEventCall([type |-> SPAN_UPDATED, span |-> Snapshot(id, "done", Undefined)])
  /\ UNCHANGED spans

\* exportEvent is called with the span_ended of a span.
CallEnded(id) ==
  /\ id \in DOMAIN spans
  /\ ExportEventCall([type |-> SPAN_ENDED, span |-> Snapshot(id, "done", Undefined)])
  /\ UNCHANGED spans

PendingNext ==
  \/ \E p \in 0..MaxSpans, t \in ExporterTypes :
       CallStarted(p, t)
         /\ UNCHANGED <<registryVars, selectorVars, noopVars, shutdownVars,
                        sanitizeVars, enumerateVars, failureVars>>
  \/ \E s \in 1..MaxSpans :
       CallUpdated(s)
         /\ UNCHANGED <<registryVars, selectorVars, noopVars, shutdownVars,
                        sanitizeVars, enumerateVars, failureVars>>
  \/ \E s \in 1..MaxSpans :
       CallEnded(s)
         /\ UNCHANGED <<registryVars, selectorVars, noopVars, shutdownVars,
                        sanitizeVars, enumerateVars, failureVars>>
  \/ \E i \in 1..MaxIssued :
       ExportEventResumes(i)
         /\ UNCHANGED <<registryVars, selectorVars, noopVars, shutdownVars,
                        sanitizeVars, enumerateVars, failureVars>>
  \/ \E i \in 1..MaxIssued :
       FlushSettles(i)
         /\ UNCHANGED <<registryVars, selectorVars, noopVars, shutdownVars,
                        sanitizeVars, enumerateVars, failureVars>>

SpecPending ==
  Init({Undefined, "true"}, {NoAttributes}) /\ [][PendingNext]_vars

\* ------------------------------------------------------------------------
\* C27
\* ------------------------------------------------------------------------

\* The first n calls handled one after the other, each completed before the
\* next, by an exporter that starts empty.
RECURSIVE OneByOne(_)
OneByOne(n) ==
  IF n = 0
    THEN State(EmptyMap, <<>>)
    ELSE Handle(delivered[n].type, OneByOne(n - 1), delivered[n].span)

\* C27: whatever exportEvent calls are still pending, in realtime mode with
\* their flushes outstanding, the mappings and the create, update and end
\* calls the backend has seen are those of the events handled one by one in
\* the order of the calls; the event of every call has been handled.
C27_IssueOrder ==
  /\ traceMap = OneByOne(Len(delivered)).traceMap
  /\ backend = BackendOnly(OneByOne(Len(delivered)).effects)

\* In realtime mode the flush of the first call is pending, and the second
\* call, the span_started of a child, has been handled: its handle is held.
C27_Witness ==
  /\ realtime
  /\ Len(delivered) = 2
  /\ Len(pendingCalls) = 2
  /\ pendingCalls[1] = [call |-> 1, pc |-> "flushing"]
  /\ event = [type |-> SPAN_STARTED, span |-> 2]
  /\ HasHandle(traceMap, 2, 1)

\* ------------------------------------------------------------------------
\* hasAITracing (registry.ts)
\* ------------------------------------------------------------------------

\* SamplingStrategyType (types.ts)
SamplingStrategyType == {"always", "never", "ratio", "custom"}

\* SamplingStrategyType.NEVER
NEVER == "never"

\* Tracing instances, one for each sampling strategy type it may be
\* configured with.
TracingInstances == {"tracing(" \o type \o ")" : type \in SamplingStrategyType}

\* instance.getConfig(): the configuration of the instance, with its sampling
\* strategy.
GetConfig(instance) ==
  [sampling |->
     [type |-> CHOOSE type \in SamplingStrategyType :
                 instance = "tracing(" \o type \o ")"]]

\* hasAITracing without the test of the sampling strategy.
HasAITracingIgnoresSampling(name) ==
  /\ result' = [op |-> "hasAITracing", name |-> name, instance |-> Undefined,
                outcome |-> IF RegistryGet(name) = Undefined
                              THEN "false" ELSE "true"]
  /\ UNCHANGED instances

\* hasAITracing(name)
HasAITracing(name) ==
  /\ result' = [op |-> "hasAITracing", name |-> name, instance |-> Undefined,
                outcome |->
                  IF RegistryGet(name) = Undefined
                    THEN "false"
                    ELSE IF GetConfig(RegistryGet(name)).sampling.type # NEVER
                           THEN "true"
                           ELSE "false"]
  /\ UNCHANGED instances

\* Instances of every sampling strategy are registered and unregistered, and
\* hasAITracing is asked about the names.
HasAITracingNext ==
  \/ \E n \in Names, i \in TracingInstances :
       Register(n, i) /\ UNCHANGED <<selectorVars, exporterVars, noopVars, restVars>>
  \/ \E n \in Names :
       Unregister(n) /\ UNCHANGED <<selectorVars, exporterVars, noopVars, restVars>>
  \/ \E n \in Names :
       HasAITracing(n) /\ UNCHANGED <<selectorVars, exporterVars, noopVars, restVars>>

SpecHasAITracing ==
  Init({Undefined}, {NoAttributes}) /\ [][HasAITracingNext]_vars

\* ------------------------------------------------------------------------
\* C28
\* ------------------------------------------------------------------------

\* C28: hasAITracing(name) is true exactly when an instance is registered
\* under the name and the type of its sampling strategy is not never; for a
\* name that is not registered it is false; the registry stays as it is.
C28_HasAITracing ==
  [][result'.op = "hasAITracing" =>
       /\ result'.outcome \in {"true", "false"}
       /\ result'.outcome = "true" <=>
            \E i \in DOMAIN instances :
              /\ instances[i].name = result'.name
              /\ instances[i].instance \in
                   {"tracing(always)", "tracing(ratio)", "tracing(custom)"}
       /\ ~MapHas(instances, result'.name) => result'.outcome = "false"
       /\ instances' = instances]_vars

\* hasAITracing was asked about a name registered with an instance whose
\* sampling strategy is never, and said no.
C28_Witness ==
  /\ result.op = "hasAITracing"
  /\ result.outcome = "false"
  /\ MapGet(instances, result.name) = "tracing(never)"

====
